---- MODULE Spec2Model ----
(***************************************************************************)
(* Model of backend/api/controllers/ActivityController.py: the two viewsets *)
(* ActivityController (create, list, create_from_template) and             *)
(* TeamActivitiesController (list, submitted_activities) over the Activity *)
(* table.  A state is the Activity table plus the last request and the     *)
(* response it was answered with.  Every action is one whole HTTP handler. *)
(*                                                                         *)
(* Python values: None is -1, a falsy supplied scalar (0 or "") is 0, a    *)
(* JSON list of primary keys is the set of its elements, and a payload key *)
(* is a record [present, val] so that an absent key and a supplied one are *)
(* told apart.                                                             *)
(***************************************************************************)
EXTENDS Integers, Sequences, FiniteSets, TLC

VARIABLES activities, req, resp

vars == <<activities, req, resp>>

\* Cap on the number of rows of the Activity table.
MaxActivities == 2

None == -1

HTTP_200_OK == 200
HTTP_201_CREATED == 201
HTTP_400_BAD_REQUEST == 400
HTTP_404_NOT_FOUND == 404

\* Primary keys of the rows of the ClassRoom, Team and ActivityTemplate tables.
ClassRoom == {1, 2}
Team == {1, 2}
ActivityTemplate ==
  [t \in {1} |-> [due_date |-> 1, evaluation |-> 1, total_score |-> 1]]

\* Primary keys a request can name: those of the rows and one of no row.
ClassPks == ClassRoom \cup {3}
TeamPks == Team \cup {3}
TemplatePks == DOMAIN ActivityTemplate \cup {2}

\* Scalar payload values: 0 is a falsy one, 1 is what the templates hold.
ScalarVals == {0, 1, 2}

-----------------------------------------------------------------------------
(* Payloads *)

Supplied(v) == [present |-> TRUE, val |-> v]
AbsentList == [present |-> FALSE, val |-> {}]
AbsentScalar == [present |-> FALSE, val |-> None]

TeamLists == {AbsentList} \cup {Supplied(s) : s \in SUBSET TeamPks}

\* request.data.get(key, default)
data_get(field, default) == IF field.present THEN field.val ELSE default

\* Python truthiness of None, a number or a string (0 stands for 0 and "").
truthy(v) == v # None /\ v # 0

\* A list test that lets the empty list through.
truthy_list_always(l) == TRUE

\* Python truthiness of a list.
truthy_list(l) == l # {}

NoData ==
  [valid |-> FALSE, classroom_id |-> None, submission_status |-> FALSE,
   team_id |-> AbsentList, team_ids |-> AbsentList,
   template_id |-> AbsentScalar, due_date |-> AbsentScalar,
   evaluation |-> AbsentScalar, total_score |-> AbsentScalar]

\* Bodies of POST /activities.
CreateData ==
  { [NoData EXCEPT !.valid = v, !.classroom_id = c, !.submission_status = s,
                   !.team_id = t, !.due_date = Supplied(1),
                   !.evaluation = Supplied(1), !.total_score = Supplied(1)] :
      v \in BOOLEAN, c \in ClassRoom, s \in BOOLEAN, t \in TeamLists }

\* Bodies of POST /classes/{class_pk}/activities/from_template without overrides.
TemplateData ==
  { [NoData EXCEPT !.template_id = m, !.team_ids = t] :
      m \in {AbsentScalar} \cup {Supplied(p) : p \in TemplatePks},
      t \in TeamLists }

Overrides == {AbsentScalar} \cup {Supplied(v) : v \in ScalarVals}

\* Bodies of from_template with any mix of overrides, on an existing template.
OverrideData ==
  { [NoData EXCEPT !.template_id = Supplied(1), !.due_date = d,
                   !.evaluation = e, !.total_score = s] :
      d \in Overrides, e \in Overrides, s \in Overrides }

Request(op, class_pk, team_pk, data) ==
  [op |-> op, class_pk |-> class_pk, team_pk |-> team_pk, data |-> data]

Response(status, body, error) ==
  [status |-> status, body |-> body, error |-> error]

-----------------------------------------------------------------------------
(* ORM *)

\* A lookup by a single pk, filter(pk=team_ids[0]), instead of pk__in.
filter_pk_in_first(team_ids) ==
  {t \in team_ids \cap Team : \A u \in team_ids : t <= u}

\* The listed pks attached as they come, without resolving them to rows.
filter_pk_in_unresolved(team_ids) == team_ids

\* Team.objects.filter(pk__in=team_ids): the rows whose pk is listed.
filter_pk_in(team_ids) == team_ids \cap Team

\* serializer.is_valid(): the outcome of the schema validation of the payload.
is_valid(data) == data.valid

\* serializer.save(): the row inserted from the validated payload.
serializer_save(data) ==
  [classroom_id |-> data.classroom_id, team_id |-> {},
   due_date |-> data.due_date.val, evaluation |-> data.evaluation.val,
   total_score |-> data.total_score.val,
   submission_status |-> data.submission_status]

\* Activity.create_activity_from_template(template): a row cloned from it.
create_activity_from_template(template) ==
  [classroom_id |-> None, team_id |-> {},
   due_date |-> template.due_date, evaluation |-> template.evaluation,
   total_score |-> template.total_score, submission_status |-> FALSE]

Ids(table) == [i \in 1..Len(table) |-> i]

\* Activity.objects.all(): the class filter forgotten.
filter_classroom_all(table, class_id) == Ids(table)

\* Activity.objects.filter(classroom_id=class_id), as ids in table order.
filter_classroom(table, class_id) ==
  SelectSeq(Ids(table), LAMBDA i : table[i].classroom_id = class_id)

\* The team filter forgotten.
filter_classroom_only(table, class_pk, team_pk) ==
  SelectSeq(Ids(table), LAMBDA i : table[i].classroom_id = class_pk)

\* Activity.objects.filter(classroom_id=class_pk, team_id=team_pk)
filter_classroom_team(table, class_pk, team_pk) ==
  SelectSeq(Ids(table), LAMBDA i : /\ table[i].classroom_id = class_pk
                                   /\ team_pk \in table[i].team_id)

\* The submission_status filter forgotten.
filter_submitted_any(table, class_pk, team_pk) ==
  SelectSeq(Ids(table), LAMBDA i : /\ table[i].classroom_id = class_pk
                                   /\ team_pk \in table[i].team_id)

\* Activity.objects.filter(classroom_id=.., team_id=.., submission_status=True)
filter_submitted(table, class_pk, team_pk) ==
  SelectSeq(Ids(table), LAMBDA i : /\ table[i].classroom_id = class_pk
                                   /\ team_pk \in table[i].team_id
                                   /\ table[i].submission_status = TRUE)

-----------------------------------------------------------------------------
(* ActivityController *)

Init ==
  /\ activities = << >>
  /\ req = Request("none", None, None, NoData)
  /\ resp = Response(HTTP_200_OK, << >>, "")

\* ActivityController.create
create(data) ==
  /\ Len(activities) < MaxActivities
  /\ req' = Request("create", None, None, data)
  /\ IF is_valid(data)
     THEN LET activity == serializer_save(data)
              saved == Append(activities, activity)
              team_ids == data_get(data.team_id, {})
          IN IF truthy_list(team_ids)
             THEN /\ activities' =
                       [saved EXCEPT ![Len(saved)].team_id = filter_pk_in(team_ids)]
                  /\ resp' = Response(HTTP_201_CREATED, <<Len(saved)>>, "")
             ELSE /\ activities' = saved
                  /\ resp' = Response(HTTP_400_BAD_REQUEST, << >>,
                                      "Invalid or empty Team IDs provided")
     ELSE /\ activities' = activities
          /\ resp' = Response(HTTP_400_BAD_REQUEST, << >>, "serializer.errors")

\* ActivityController.list
ActivityController_list(class_pk) ==
  /\ req' = Request("list", class_pk, None, NoData)
  /\ activities' = activities
  /\ IF truthy(class_pk)
     THEN resp' = Response(HTTP_200_OK, filter_classroom(activities, class_pk), "")
     ELSE resp' = Response(HTTP_400_BAD_REQUEST, << >>, "Class ID not provided")

\* ActivityController.create_from_template
create_from_template(class_pk, data) ==
  /\ Len(activities) < MaxActivities
  /\ req' = Request("create_from_template", class_pk, None, data)
  /\ LET template_id == data_get(data.template_id, None)
         team_ids == data_get(data.team_ids, {})
         due_date == data_get(data.due_date, None)
         evaluation == data_get(data.evaluation, None)
         total_score == data_get(data.total_score, None)
     IN IF template_id # None /\ class_pk # None
        THEN IF class_pk \notin ClassRoom
             THEN /\ activities' = activities
                  /\ resp' = Response(HTTP_404_NOT_FOUND, << >>,
                                      "ClassRoom matching query does not exist.")
             ELSE IF template_id \notin DOMAIN ActivityTemplate
             THEN /\ activities' = activities
                  /\ resp' = Response(HTTP_404_NOT_FOUND, << >>,
                              "ActivityTemplate matching query does not exist.")
             ELSE LET t == create_activity_from_template(ActivityTemplate[template_id])
                      a1 == IF truthy_list(team_ids)
                            THEN [t EXCEPT !.team_id = filter_pk_in(team_ids)]
                            ELSE t
                      a2 == IF truthy(due_date)
                            THEN [a1 EXCEPT !.due_date = due_date] ELSE a1
                      a3 == IF truthy(evaluation)
                            THEN [a2 EXCEPT !.evaluation = evaluation] ELSE a2
                      a4 == IF truthy(total_score)
                            THEN [a3 EXCEPT !.total_score = total_score] ELSE a3
                      new_activity == [a4 EXCEPT !.classroom_id = class_pk]
                  IN /\ activities' = Append(activities, new_activity)
                     /\ resp' = Response(HTTP_201_CREATED,
                                         <<Len(activities) + 1>>, "")
        ELSE /\ activities' = activities
             /\ resp' = Response(HTTP_400_BAD_REQUEST, << >>,
                                 "Template ID or Class ID not provided")

-----------------------------------------------------------------------------
(* TeamActivitiesController *)

\* TeamActivitiesController.list, as a function of the table and the kwargs
team_list_response(table, class_pk, team_pk) ==
  IF class_pk # None /\ team_pk # None
  THEN IF class_pk \notin ClassRoom
       THEN Response(HTTP_404_NOT_FOUND, << >>, "Class not found")
       ELSE IF team_pk \notin Team
       THEN Response(HTTP_404_NOT_FOUND, << >>, "Team not found")
       ELSE Response(HTTP_200_OK,
                     filter_classroom_team(table, class_pk, team_pk), "")
  ELSE IF team_pk = None
  THEN Response(HTTP_400_BAD_REQUEST, << >>, "Team ID not provided")
  ELSE Response(HTTP_400_BAD_REQUEST, << >>, "Class ID not provided")

\* TeamActivitiesController.submitted_activities, likewise
submitted_response(table, class_pk, team_pk) ==
  IF class_pk # None /\ team_pk # None
  THEN IF class_pk \notin ClassRoom
       THEN Response(HTTP_404_NOT_FOUND, << >>, "Class not found")
       ELSE IF team_pk \notin Team
       THEN Response(HTTP_404_NOT_FOUND, << >>, "Team not found")
       ELSE Response(HTTP_200_OK,
                     filter_submitted(table, class_pk, team_pk), "")
  ELSE IF team_pk = None
  THEN Response(HTTP_400_BAD_REQUEST, << >>, "Team ID not provided")
  ELSE Response(HTTP_400_BAD_REQUEST, << >>, "Class ID not provided")

TeamActivitiesController_list(class_pk, team_pk) ==
  /\ req' = Request("team_list", class_pk, team_pk, NoData)
  /\ activities' = activities
  /\ resp' = team_list_response(activities, class_pk, team_pk)

submitted_activities(class_pk, team_pk) ==
  /\ req' = Request("submitted_activities", class_pk, team_pk, NoData)
  /\ activities' = activities
  /\ resp' = submitted_response(activities, class_pk, team_pk)

-----------------------------------------------------------------------------
KwClass == {None} \cup ClassPks
KwTeam == {None} \cup TeamPks

Next ==
  \/ \E data \in CreateData : create(data)
  \/ \E class_pk \in KwClass : ActivityController_list(class_pk)
  \/ \E class_pk \in KwClass, data \in TemplateData :
       create_from_template(class_pk, data)
  \/ \E class_pk \in KwClass, team_pk \in KwTeam :
       TeamActivitiesController_list(class_pk, team_pk)
  \/ \E class_pk \in KwClass, team_pk \in KwTeam :
       submitted_activities(class_pk, team_pk)

Spec == Init /\ [][Next]_vars

\* Template instantiation alone, with every mix of the three overrides.
NextOverrides ==
  \E class_pk \in ClassRoom, data \in OverrideData :
    create_from_template(class_pk, data)

SpecOverrides == Init /\ [][NextOverrides]_vars

-----------------------------------------------------------------------------
(* Properties *)

Range(s) == {s[i] : i \in 1..Len(s)}

\* The row the last request inserted: inserts append to the table.
Created == activities[Len(activities)]

HasMissingTeam(field) == field.present /\ \E t \in field.val : t \notin Team

\* C1: a create whose payload is schema-valid and whose team_id list is
\* non-empty and names only existing teams is answered 201, and the created
\* activity's team set is exactly the requested set.
C1_CreateAttachesRequestedTeams ==
  (/\ req.op = "create"
   /\ req.data.valid
   /\ req.data.team_id.present
   /\ req.data.team_id.val # {}
   /\ req.data.team_id.val \subseteq Team)
  => /\ resp.status = HTTP_201_CREATED
     /\ resp.body = <<Len(activities)>>
     /\ Created.team_id = req.data.team_id.val

C1_Witness ==
  /\ req.op = "create"
  /\ req.data.valid
  /\ req.data.team_id.present
  /\ req.data.team_id.val = Team
  /\ resp.status = HTTP_201_CREATED
  /\ Cardinality(Created.team_id) = 2

\* C2: a create whose payload is schema-valid and whose team_id list names at
\* least one nonexistent team is answered 404, and the new activity is
\* persisted with no team attached.
C2_CreateMissingTeamIs404 ==
  (/\ req.op = "create"
   /\ req.data.valid
   /\ HasMissingTeam(req.data.team_id))
  => /\ resp.status = HTTP_404_NOT_FOUND
     /\ activities # << >>
     /\ Created.team_id = {}

\* C3: a create whose team_id list is empty or absent is answered 400, whether
\* or not the rest of the payload is schema-valid.
C3_CreateEmptyTeamsIs400 ==
  (/\ req.op = "create"
   /\ (~req.data.team_id.present \/ req.data.team_id.val = {}))
  => resp.status = HTTP_400_BAD_REQUEST

C3_Witness ==
  /\ req.op = "create"
  /\ req.data.valid
  /\ req.data.team_id.present
  /\ req.data.team_id.val = {}
  /\ resp.status = HTTP_400_BAD_REQUEST

\* C4: ActivityController.list with a class id is answered 200 with exactly
\* the activities whose classroom_id is that class, each once; with no such
\* activity the body is the empty list, still with status 200.
C4_ListByClassIsExact ==
  (req.op = "list" /\ req.class_pk # None)
  => /\ resp.status = HTTP_200_OK
     /\ Range(resp.body) =
          {i \in 1..Len(activities) : activities[i].classroom_id = req.class_pk}
     /\ Cardinality(Range(resp.body)) = Len(resp.body)

C4_Witness ==
  /\ req.op = "list"
  /\ req.class_pk # None
  /\ resp.status = HTTP_200_OK
  /\ resp.body # << >>
  /\ Len(resp.body) < Len(activities)

\* C5: after a successful create_from_template, each of due_date, evaluation
\* and total_score of the new activity is the supplied value when the payload
\* supplies the field (whatever the value, 0 and empty included) and the
\* template's value when it does not.
C5_OverridesApplyWhenSupplied ==
  (req.op = "create_from_template" /\ resp.status = HTTP_201_CREATED)
  => LET template == ActivityTemplate[req.data.template_id.val]
     IN /\ Created.due_date =
             data_get(req.data.due_date, template.due_date)
        /\ Created.evaluation =
             data_get(req.data.evaluation, template.evaluation)
        /\ Created.total_score =
             data_get(req.data.total_score, template.total_score)

\* C6: a create_from_template on an existing class and an existing template
\* whose team_ids list names at least one nonexistent team is answered 404.
C6_TemplateMissingTeamIs404 ==
  (/\ req.op = "create_from_template"
   /\ req.class_pk \in ClassRoom
   /\ req.data.template_id.present
   /\ req.data.template_id.val \in DOMAIN ActivityTemplate
   /\ HasMissingTeam(req.data.team_ids))
  => resp.status = HTTP_404_NOT_FOUND

\* C7: TeamActivitiesController.list with both ids: 404 naming the class when
\* the class does not exist; 404 naming the team when the class exists and the
\* team does not; otherwise 200 with exactly the activities of that class that
\* are associated with that team (the empty list when there is none).
C7_TeamListValidatesThenFilters ==
  (req.op = "team_list" /\ req.class_pk # None /\ req.team_pk # None)
  => /\ req.class_pk \notin ClassRoom
          => resp.status = HTTP_404_NOT_FOUND /\ resp.error = "Class not found"
     /\ (req.class_pk \in ClassRoom /\ req.team_pk \notin Team)
          => resp.status = HTTP_404_NOT_FOUND /\ resp.error = "Team not found"
     /\ (req.class_pk \in ClassRoom /\ req.team_pk \in Team)
          => /\ resp.status = HTTP_200_OK
             /\ Range(resp.body) =
                  {i \in 1..Len(activities) :
                     /\ activities[i].classroom_id = req.class_pk
                     /\ req.team_pk \in activities[i].team_id}
             /\ Cardinality(Range(resp.body)) = Len(resp.body)

C7_Witness ==
  /\ req.op = "team_list"
  /\ resp.status = HTTP_200_OK
  /\ resp.body # << >>
  /\ \E i \in 1..Len(activities) :
       /\ activities[i].classroom_id = req.class_pk
       /\ req.team_pk \notin activities[i].team_id

\* C8: submitted_activities answers a (class, team) pair with the status list
\* answers it with, and on success its body is list's body restricted to the
\* activities whose submission_status is true.
C8_SubmittedRefinesTeamList ==
  req.op = "submitted_activities"
  => LET listed == team_list_response(activities, req.class_pk, req.team_pk)
     IN /\ resp.status = listed.status
        /\ resp.status = HTTP_200_OK
             => /\ resp.body =
                     SelectSeq(listed.body,
                               LAMBDA i : activities[i].submission_status)
                /\ \A i \in Range(resp.body) : activities[i].submission_status

C8_Witness ==
  /\ req.op = "submitted_activities"
  /\ resp.status = HTTP_200_OK
  /\ resp.body # << >>
  /\ Len(resp.body) <
       Len(team_list_response(activities, req.class_pk, req.team_pk).body)

\* C9: every team id in the team set of a persisted activity is the id of an
\* existing team, whatever mix of existing and nonexistent ids the create and
\* create_from_template requests carried.
C9_NoDanglingTeam ==
  \A i \in 1..Len(activities) : activities[i].team_id \subseteq Team

C9_Witness ==
  /\ req.op \in {"create", "create_from_template"}
  /\ HasMissingTeam(IF req.op = "create" THEN req.data.team_id
                    ELSE req.data.team_ids)
  /\ resp.status = HTTP_201_CREATED
  /\ Created.team_id # {}

\* C10: a create or create_from_template answered 400 or 404 leaves the
\* Activity table as it was.
C10_RejectedRequestChangesNothing ==
  [][(/\ req'.op \in {"create", "create_from_template"}
      /\ resp'.status \in {HTTP_400_BAD_REQUEST, HTTP_404_NOT_FOUND})
     => activities' = activities]_vars

====
